---- MODULE Spec2Model ----
(***************************************************************************)
(* Model of the ckLightning canister's accounting core (src/src/lib.rs,    *)
(* src/src/types.rs, src/src/error.rs): the holdings map, the channel      *)
(* registry, and the pool-withdrawal protocol around its inter-canister    *)
(* transfer call.                                                          *)
(***************************************************************************)
EXTENDS Integers, Sequences, FiniteSets, TLC

\* ------------------------------------------------------------------------
\* Bounds of the model (not program constants)
\* ------------------------------------------------------------------------
\* number of entry-point calls in one behaviour
MaxOps == 3
\* largest amount one deposit credits
MaxAmount == 2
MaxQueueOps == 4

\* ------------------------------------------------------------------------
\* Value types (src/src/types.rs)
\* ------------------------------------------------------------------------
\* u64 is modelled with U64Bits bits: TLC's integers cannot hold 2^64, so the
\* word is scaled down; every amount at or above DigitBase takes more than
\* one u64 digit.
U64Bits == 2
DigitBase == 2 ^ U64Bits

L2Accounts == {"P1", "P2"}
L1Accounts == {"A"}

\* Params of the two channels the model registers: one with two distinct
\* participants, one whose participant list repeats an identity.
ParamsSet ==
  { [nonce |-> 1, participants |-> <<"P1", "P2">>, challenge_duration |-> 1],
    [nonce |-> 2, participants |-> <<"P1", "P1">>, challenge_duration |-> 1] }

\* Params::id(): the digest of nonce, participants and challenge duration.
\* The digest is modelled as collision-free: the id is the digested triple.
id(params) == <<params.nonce, params.participants, params.challenge_duration>>

ChannelIds == { id(p) : p \in ParamsSet }

\* Funding::new
Funding(channel, participant) == [channel |-> channel, participant |-> participant]

\* the fundings deposits are made to: every participant of every channel
FundingSet ==
  { Funding(id(p), p.participants[i]) : p \in ParamsSet, i \in 1 .. 2 }

\* Params of a channel with a single participant, and its one funding
SingleParams == [nonce |-> 3, participants |-> <<"P1">>, challenge_duration |-> 1]
SingleFunding == Funding(id(SingleParams), "P1")

\* the channels deposits are made to
DepositChannels == ChannelIds \cup {id(SingleParams)}

\* Allocation lists a registration is called with: shorter than, parallel to
\* and longer than a two-participant list.
Allocations == { <<1>>, <<0, 2>>, <<1, 1, 1>> }

Versions == {0, 1}
Timestamps == {1}

States ==
  [channel : ChannelIds, version : Versions, allocation : Allocations,
   finalized : BOOLEAN]

RegisteredStates == [state : States, timeout : Timestamps]

\* Option::None of the suspended-withdrawal slot
NoPending == [tag |-> "none"]

\* ------------------------------------------------------------------------
\* Helpers
\* ------------------------------------------------------------------------
\* (variant: the second argument is taken whatever the first is)
Min_takes_needed(a, b) == b

Min(a, b) == IF a <= b THEN a ELSE b

RECURSIVE SeqSum(_)
SeqSum(s) == IF s = <<>> THEN 0 ELSE Head(s) + SeqSum(Tail(s))

\* HashMap::get(..).unwrap_or(0)
Balance(h, k) == IF k \in DOMAIN h THEN h[k] ELSE 0

\* HashMap::insert
Insert(h, k, v) == [x \in (DOMAIN h) \cup {k} |-> IF x = k THEN v ELSE h[x]]

\* HashMap::remove
Remove(h, k) == [x \in (DOMAIN h) \ {k} |-> h[x]]

EmptyMap == [x \in {} |-> 0]

RECURSIVE MapSum(_, _)
MapSum(h, keys) ==
  IF keys = {} THEN 0
  ELSE LET k == CHOOSE x \in keys : TRUE
       IN h[k] + MapSum(h, keys \ {k})

\* the entries of one channel, summed
ChannelSum(h, c) == MapSum(h, { k \in DOMAIN h : k.channel = c })

\* every order in which a HashMap may iterate its keys
Orders(keys) ==
  { o \in [1 .. Cardinality(keys) -> keys] :
      \A i, j \in 1 .. Cardinality(keys) : i # j => o[i] # o[j] }

VARIABLES
  user_holdings,      \* CanisterState.user_holdings : Funding -> Amount
  channels,           \* CanisterState.channels : ChannelId -> RegisteredState
  liq_pool_holdings,  \* CanisterState.liq_pool_holdings : L1Account -> Amount
  pending,            \* the withdrawal suspended at its transfer call, or NoPending
  result,             \* what the last call returned to its caller
  deposited,          \* per channel: total credited by deposit so far
  withdrawn,          \* per channel: total deducted by withdrawals so far
  nops,               \* number of calls made so far
  icrc_receiver,      \* CanisterState.icrc_receiver : the deposit receiver
  transferred_out,    \* total amount of the transfers the ledger accepted
  MESSAGE_QUEUE,      \* deq.rs: the message queue
  qlog                \* the messages enqueued so far, and how many have left

vars == <<user_holdings, channels, liq_pool_holdings, pending, result,
          deposited, withdrawn, nops, icrc_receiver, transferred_out,
          MESSAGE_QUEUE, qlog>>

queue_vars == <<MESSAGE_QUEUE, qlog>>

ledger == <<user_holdings, channels, liq_pool_holdings>>

\* the shape of a returned result, with the arguments of a registration; the
\* amounts are 0 where they do not apply
NoCall == [tag |-> "none"]
Result(op, outcome) ==
  [op |-> op, outcome |-> outcome, call |-> NoCall,
   requested |-> 0, deducted |-> 0, transferred |-> 0]

\* Receiver::new: nothing received, no transaction seen
NewReceiver == [unspent |-> EmptyMap, known_txs |-> {}]

\* CanisterState::new: all three maps empty
Init ==
  /\ user_holdings = EmptyMap
  /\ channels = EmptyMap
  /\ liq_pool_holdings = EmptyMap
  /\ pending = NoPending
  /\ result = Result("new", "Ok")
  /\ deposited = [c \in DepositChannels |-> 0]
  /\ withdrawn = [c \in DepositChannels |-> 0]
  /\ nops = 0
  /\ icrc_receiver = NewReceiver
  /\ transferred_out = 0
  /\ MESSAGE_QUEUE = <<>>
  /\ qlog = [enqueued |-> <<>>, gone |-> 0]

\* STATE.write(): the RwLock guard of a suspended trigger_withdraw lives until
\* its await returns; on the canister's single thread a second write() or
\* read() cannot be granted while it is held.
\* (variant: the guard is dropped before the await, so other calls get in)
StateWrite_unlocked == TRUE

StateWrite == pending = NoPending

\* ------------------------------------------------------------------------
\* FundingLedger
\* ------------------------------------------------------------------------
\* (variant: the deposit replaces the entry instead of adding to it)
deposit_overwrites(h, funding, amount) == Insert(h, funding, amount)

\* (variant: only an entry that exists is added to)
deposit_only_existing(h, funding, amount) ==
  IF funding \in DOMAIN h THEN Insert(h, funding, h[funding] + amount) ELSE h

\* CanisterState::deposit: *entry(funding).or_insert(0) += amount
deposit(h, funding, amount) == Insert(h, funding, Balance(h, funding) + amount)

Deposit(funding, amount) ==
  /\ UNCHANGED <<transferred_out, queue_vars>>
  /\ UNCHANGED icrc_receiver
  /\ StateWrite
  /\ nops < MaxOps
  /\ user_holdings' = deposit(user_holdings, funding, amount)
  /\ deposited' = [deposited EXCEPT ![funding.channel] = @ + amount]
  /\ result' = Result("deposit", "Ok")
  /\ nops' = nops + 1
  /\ UNCHANGED <<channels, liq_pool_holdings, pending, withdrawn>>

\* CanisterState::deposit_liq_pool
deposit_liq_pool(pool, depositor, amount) ==
  Insert(pool, depositor, Balance(pool, depositor) + amount)

DepositLiqPool(depositor, amount) ==
  /\ UNCHANGED <<transferred_out, queue_vars>>
  /\ UNCHANGED icrc_receiver
  /\ StateWrite
  /\ nops < MaxOps
  /\ liq_pool_holdings' = deposit_liq_pool(liq_pool_holdings, depositor, amount)
  /\ result' = Result("deposit_liq_pool", "Ok")
  /\ nops' = nops + 1
  /\ UNCHANGED <<user_holdings, channels, pending, deposited, withdrawn>>

\* CanisterState::query_holdings: Some(amount) or None
None == [tag |-> "None"]
Some(v) == [tag |-> "Some", value |-> v]
query_holdings(h, funding) == IF funding \in DOMAIN h THEN Some(h[funding]) ELSE None

\* CanisterState::holdings_total: one term per entry of params.participants
RECURSIVE holdings_total_from(_, _, _)
holdings_total_from(h, params, i) ==
  IF i > Len(params.participants) THEN 0
  ELSE Balance(h, Funding(id(params), params.participants[i]))
       + holdings_total_from(h, params, i + 1)

holdings_total(h, params) == holdings_total_from(h, params, 1)

\* State::total
total(state) == SeqSum(state.allocation)

\* (variant: the version is not looked at)
may_be_underfunded_any_version(state) == ~state.finalized

\* (variant: the finalized flag is not looked at)
may_be_underfunded_any_finality(state) == state.version = 0

\* State::may_be_underfunded
may_be_underfunded(state) == state.version = 0 /\ ~state.finalized

\* CanisterState::update_holdings: one insert per allocation entry, keyed by
\* the state's channel and params.participants[i]; the index panics when the
\* allocation is longer than the participant list.
update_holdings_panics(params, state) ==
  Len(state.allocation) > Len(params.participants)

RECURSIVE update_holdings_from(_, _, _, _)
update_holdings_from(h, params, state, i) ==
  IF i > Len(state.allocation) \/ i > Len(params.participants) THEN h
  ELSE update_holdings_from(
         Insert(h, Funding(state.channel, params.participants[i]), state.allocation[i]),
         params, state, i + 1)

update_holdings(h, params, state) == update_holdings_from(h, params, state, 1)

\* ------------------------------------------------------------------------
\* ChannelRegistry
\* ------------------------------------------------------------------------
\* (variant: the allocation is pushed into the holdings in both branches)
register_channel_always_updates(h, chs, params, state) ==
  IF holdings_total(h, params) < total(state.state)
     /\ ~may_be_underfunded(state.state)
  THEN [outcome |-> "InsufficientFunding", user_holdings |-> h, channels |-> chs]
  ELSE IF update_holdings_panics(params, state.state)
       THEN [outcome |-> "trap", user_holdings |-> h, channels |-> chs]
       ELSE [outcome |-> "Ok",
             user_holdings |-> update_holdings(h, params, state.state),
             channels |-> Insert(chs, state.state.channel, state)]

\* CanisterState::register_channel as a function of the two maps it reads
\* and writes.  A panic traps the call: the canister rolls the message's
\* writes back and the caller gets no result value.
register_channel(h, chs, params, state) ==
  IF holdings_total(h, params) < total(state.state)
  THEN IF may_be_underfunded(state.state)
       THEN [outcome |-> "Ok", user_holdings |-> h,
             channels |-> Insert(chs, state.state.channel, state)]
       ELSE [outcome |-> "InsufficientFunding", user_holdings |-> h, channels |-> chs]
  ELSE IF update_holdings_panics(params, state.state)
       THEN [outcome |-> "trap", user_holdings |-> h, channels |-> chs]
       ELSE [outcome |-> "Ok",
             user_holdings |-> update_holdings(h, params, state.state),
             channels |-> Insert(chs, state.state.channel, state)]

RegisterChannel(params, state) ==
  /\ UNCHANGED <<transferred_out, queue_vars>>
  /\ UNCHANGED icrc_receiver
  /\ StateWrite
  /\ nops < MaxOps
  /\ nops' = nops + 1
  /\ LET r == register_channel(user_holdings, channels, params, state)
     IN /\ user_holdings' = r.user_holdings
        /\ channels' = r.channels
        /\ result' = [Result("register_channel", r.outcome)
                        EXCEPT !.call = [params |-> params, state |-> state]]
  /\ UNCHANGED <<liq_pool_holdings, pending, deposited, withdrawn>>

\* ------------------------------------------------------------------------
\* WithdrawalCoordinator
\* ------------------------------------------------------------------------
\* amounts a WithdrawalReq asks for: 0, amounts of one u64 digit, and amounts
\* of two digits
ReqAmounts == 0 .. DigitBase + 1
Receivers == {"A"}
WithdrawalReqs == [amount : ReqAmounts, receiver : Receivers]

\* total.0.to_u64_digits()[0]: the least significant u64 digit of the amount.
\* The digit vector of 0 is empty, so the index panics for a zero amount.
to_u64_digits_0(n) == n % DigitBase

\* CanisterState::calculate_required_deductions, iterating user_holdings in
\* the order `order`.  Returns the amount still needed and the plan, a
\* sequence of <<account, take>>.
RECURSIVE deductions_from(_, _, _, _)
deductions_from(h, order, needed, to_deduct) ==
  IF order = <<>> \/ needed = 0
  THEN [needed |-> needed, to_deduct |-> to_deduct]
  ELSE LET acc == Head(order)
           take == Min(h[acc], needed)
       IN IF take > 0
          THEN deductions_from(h, Tail(order), needed - take,
                               Append(to_deduct, <<acc, take>>))
          ELSE deductions_from(h, Tail(order), needed, to_deduct)

\* (variant: a plan that leaves part of the amount uncovered is accepted)
calculate_required_deductions_unchecked(h, order, amount) ==
  LET plan == deductions_from(h, order, amount, <<>>)
  IN IF amount - plan.needed = 0
     THEN [tag |-> "panic"]
     ELSE [tag |-> "Ok",
           total_u64 |-> to_u64_digits_0(amount - plan.needed),
           to_deduct |-> plan.to_deduct]

calculate_required_deductions(h, order, amount) ==
  LET plan == deductions_from(h, order, amount, <<>>)
  IN IF plan.needed > 0
     THEN [tag |-> "Err", error |-> "InsufficientLiquidity"]
     ELSE IF amount - plan.needed = 0
          THEN [tag |-> "panic"]
          ELSE [tag |-> "Ok",
                total_u64 |-> to_u64_digits_0(amount - plan.needed),
                to_deduct |-> plan.to_deduct]

\* CanisterState::execute_ledger_transfer: what the icrc1_transfer call can
\* come back with, and the result it is turned into
TransferErrors ==
  {"BadFee", "BadBurn", "InsufficientFunds", "TooOld", "CreatedInFuture",
   "TemporarilyUnavailable", "Duplicate", "GenericError"}
Responses == {"Ok"} \cup TransferErrors \cup {"CallError"}

\* (variant: a Duplicate answer is taken for a success)
execute_ledger_transfer_duplicate_ok(response) ==
  IF response \in {"Ok", "Duplicate"} THEN "Ok" ELSE "LedgerError"

\* (variant: a failed call is taken for a success)
execute_ledger_transfer_call_error_ok(response) ==
  IF response \in {"Ok", "CallError"} THEN "Ok" ELSE "LedgerError"

execute_ledger_transfer(response) ==
  IF response = "Ok" THEN "Ok" ELSE "LedgerError"

\* CanisterState::apply_deductions: *entry -= take panics on underflow
\* (variant: an entry that reaches 0 is kept in the map)
RECURSIVE apply_deductions_keeps_zero(_, _)
apply_deductions_keeps_zero(h, to_deduct) ==
  IF to_deduct = <<>> THEN [panic |-> FALSE, map |-> h]
  ELSE LET acc == Head(to_deduct)[1]
           take == Head(to_deduct)[2]
       IN IF acc \in DOMAIN h
          THEN IF h[acc] < take
               THEN [panic |-> TRUE, map |-> h]
               ELSE apply_deductions_keeps_zero(Insert(h, acc, h[acc] - take),
                                                Tail(to_deduct))
          ELSE apply_deductions_keeps_zero(h, Tail(to_deduct))

RECURSIVE apply_deductions(_, _)
apply_deductions(h, to_deduct) ==
  IF to_deduct = <<>> THEN [panic |-> FALSE, map |-> h]
  ELSE LET acc == Head(to_deduct)[1]
           take == Head(to_deduct)[2]
       IN IF acc \in DOMAIN h
          THEN IF h[acc] < take
               THEN [panic |-> TRUE, map |-> h]
               ELSE IF h[acc] - take = 0
                    THEN apply_deductions(Remove(h, acc), Tail(to_deduct))
                    ELSE apply_deductions(Insert(h, acc, h[acc] - take), Tail(to_deduct))
          ELSE apply_deductions(h, Tail(to_deduct))

\* the takes a plan makes from the accounts of channel c, summed
RECURSIVE PlanSum(_, _)
PlanSum(to_deduct, c) ==
  IF to_deduct = <<>> THEN 0
  ELSE (IF Head(to_deduct)[1].channel = c THEN Head(to_deduct)[2] ELSE 0)
       + PlanSum(Tail(to_deduct), c)

WithdrawResult(outcome, requested, deducted, transferred) ==
  [op |-> "trigger_withdraw", outcome |-> outcome, call |-> NoCall,
   requested |-> requested, deducted |-> deducted, transferred |-> transferred]

\* trigger_withdraw / withdraw_from_liq_pool up to its await: the plan phase.
\* On success the call is suspended at the transfer with the write guard held.
TriggerWithdraw(req) ==
  /\ UNCHANGED <<transferred_out, queue_vars>>
  /\ UNCHANGED icrc_receiver
  /\ StateWrite
  /\ nops < MaxOps
  /\ nops' = nops + 1
  /\ UNCHANGED <<ledger, deposited, withdrawn>>
  /\ \E order \in Orders(DOMAIN user_holdings) :
       LET plan == calculate_required_deductions(user_holdings, order, req.amount)
       IN CASE plan.tag = "Err" ->
                 /\ result' = WithdrawResult(plan.error, req.amount, 0, 0)
                 /\ pending' = NoPending
            [] plan.tag = "panic" ->
                 /\ result' = WithdrawResult("trap", req.amount, 0, 0)
                 /\ pending' = NoPending
            [] plan.tag = "Ok" ->
                 /\ result' = WithdrawResult("suspended", req.amount, 0, 0)
                 /\ pending' = [tag |-> "transfer", req |-> req,
                                total_u64 |-> plan.total_u64,
                                to_deduct |-> plan.to_deduct,
                                snapshot |-> user_holdings]

\* (variant: on a failed transfer the write guard is never dropped)
TransferReturns_error_keeps_guard(response) ==
  /\ pending # NoPending
  /\ pending.tag = "transfer"
  /\ pending' = IF execute_ledger_transfer(response) = "Ok"
                 THEN NoPending ELSE [tag |-> "held"]
  /\ transferred_out' =
       transferred_out + (IF execute_ledger_transfer(response) = "Ok"
                          THEN pending.total_u64 ELSE 0)
  /\ UNCHANGED <<icrc_receiver, queue_vars>>
  /\ UNCHANGED <<channels, liq_pool_holdings, deposited, nops>>
  /\ IF execute_ledger_transfer(response) = "Ok"
     THEN LET after == apply_deductions(user_holdings, pending.to_deduct)
          IN IF after.panic
             THEN /\ result' = WithdrawResult("trap", pending.req.amount, 0, pending.total_u64)
                  /\ UNCHANGED <<user_holdings, withdrawn>>
             ELSE /\ user_holdings' = after.map
                  /\ withdrawn' =
                       [c \in DepositChannels |-> withdrawn[c] + PlanSum(pending.to_deduct, c)]
                  /\ result' =
                       WithdrawResult("Ok", pending.req.amount,
                         MapSum(user_holdings, DOMAIN user_holdings)
                           - MapSum(after.map, DOMAIN after.map),
                         pending.total_u64)
     ELSE /\ result' = WithdrawResult(execute_ledger_transfer(response),
                                      pending.req.amount, 0, 0)
          /\ UNCHANGED <<user_holdings, withdrawn>>

\* withdraw_from_liq_pool from the return of its await: the commit phase.
\* A panic in apply_deductions traps the callback, which writes nothing.
TransferReturns(response) ==
  /\ pending # NoPending
  /\ pending' = NoPending
  /\ transferred_out' =
       transferred_out + (IF execute_ledger_transfer(response) = "Ok"
                          THEN pending.total_u64 ELSE 0)
  /\ UNCHANGED <<icrc_receiver, queue_vars>>
  /\ UNCHANGED <<channels, liq_pool_holdings, deposited, nops>>
  /\ IF execute_ledger_transfer(response) = "Ok"
     THEN LET after == apply_deductions(user_holdings, pending.to_deduct)
          IN IF after.panic
             THEN /\ result' = WithdrawResult("trap", pending.req.amount, 0, pending.total_u64)
                  /\ UNCHANGED <<user_holdings, withdrawn>>
             ELSE /\ user_holdings' = after.map
                  /\ withdrawn' =
                       [c \in DepositChannels |-> withdrawn[c] + PlanSum(pending.to_deduct, c)]
                  /\ result' =
                       WithdrawResult("Ok", pending.req.amount,
                         MapSum(user_holdings, DOMAIN user_holdings)
                           - MapSum(after.map, DOMAIN after.map),
                         pending.total_u64)
     ELSE /\ result' = WithdrawResult(execute_ledger_transfer(response),
                                      pending.req.amount, 0, 0)
          /\ UNCHANGED <<user_holdings, withdrawn>>

\* any entry point called while a withdrawal is suspended: STATE.write() and
\* STATE.read() find the lock held and the call traps without effect
BlockedCall ==
  /\ UNCHANGED <<transferred_out, queue_vars>>
  /\ UNCHANGED icrc_receiver
  /\ ~StateWrite
  /\ result' = Result("blocked", "trap")
  /\ UNCHANGED <<ledger, pending, deposited, withdrawn, nops>>

Next ==
  \/ \E f \in FundingSet, a \in 0 .. MaxAmount : Deposit(f, a)
  \/ \E d \in L1Accounts, a \in 1 .. MaxAmount : DepositLiqPool(d, a)
  \/ \E p \in ParamsSet, s \in RegisteredStates : RegisterChannel(p, s)
  \/ \E r \in WithdrawalReqs : TriggerWithdraw(r)
  \/ \E r \in Responses : TransferReturns(r)
  \/ BlockedCall

Spec == Init /\ [][Next]_vars

\* ------------------------------------------------------------------------
\* simple_withdraw
\* ------------------------------------------------------------------------
\* the Nat simple_withdraw returns: the block height of the transfer, or the
\* code it gives each error
simple_withdraw(response) ==
  CASE response = "Ok" -> "block_height"
    [] response = "BadFee" -> "111"
    [] response = "BadBurn" -> "112"
    [] response = "InsufficientFunds" -> "222"
    [] response = "TooOld" -> "333"
    [] response = "CreatedInFuture" -> "444"
    [] response = "TemporarilyUnavailable" -> "666"
    [] response = "Duplicate" -> "555"
    [] response = "GenericError" -> "777"
    [] response = "CallError" -> "999"

\* simple_withdraw: sends req.amount to req.receiver and returns what the
\* ledger answered.  It never takes STATE, so it is not held up by a
\* suspended trigger_withdraw and it reads and writes no map.
SimpleWithdraw(req, response) ==
  /\ nops < MaxOps
  /\ nops' = nops + 1
  /\ transferred_out' = transferred_out + (IF response = "Ok" THEN req.amount ELSE 0)
  /\ result' = [op |-> "simple_withdraw", outcome |-> simple_withdraw(response),
                call |-> NoCall, requested |-> req.amount, deducted |-> 0,
                transferred |-> IF response = "Ok" THEN req.amount ELSE 0]
  /\ UNCHANGED <<ledger, pending, deposited, withdrawn, icrc_receiver, queue_vars>>

NextTransfers ==
  \/ \E f \in FundingSet, a \in 0 .. MaxAmount : Deposit(f, a)
  \/ \E r \in WithdrawalReqs : TriggerWithdraw(r)
  \/ \E r \in Responses : TransferReturns(r)
  \/ BlockedCall
  \/ \E r \in WithdrawalReqs, a \in Responses : SimpleWithdraw(r, a)

SpecTransfers == Init /\ [][NextTransfers]_vars

\* The transfer is an inter-canister call, and the system answers every such
\* call with a reply or a reject: a suspended withdrawal is resumed.
SpecFair == SpecTransfers /\ WF_vars(\E r \in Responses : TransferReturns(r))

\* ------------------------------------------------------------------------
\* The message queue (deq.rs)
\* ------------------------------------------------------------------------
Messages == {"msg1", "msg2", "msg3"}

\* VecDeque::push_back
enqueue(q, message) == Append(q, message)

\* (variant: the newest message is taken)
dequeue_pop_back(q) ==
  IF q = <<>> THEN [ret |-> None, queue |-> q]
  ELSE [ret |-> Some(q[Len(q)]), queue |-> SubSeq(q, 1, Len(q) - 1)]

\* VecDeque::pop_front
dequeue(q) ==
  IF q = <<>> THEN [ret |-> None, queue |-> q]
  ELSE [ret |-> Some(Head(q)), queue |-> Tail(q)]

\* (variant: the newest message is shown)
peek_back(q) == IF q = <<>> THEN None ELSE Some(q[Len(q)])

\* VecDeque::front().cloned()
peek(q) == IF q = <<>> THEN None ELSE Some(Head(q))

\* VecDeque::len
size(q) == Len(q)

\* VecDeque::clear
clear(q) == <<>>

\* the frame of every queue operation: the ledger is not touched
QueueCall(op, ret) ==
  /\ nops < MaxQueueOps
  /\ nops' = nops + 1
  /\ result' = [Result(op, "Ok") EXCEPT !.call = [ret |-> ret]]
  /\ UNCHANGED <<ledger, pending, deposited, withdrawn, icrc_receiver, transferred_out>>

Enqueue(message) ==
  /\ MESSAGE_QUEUE' = enqueue(MESSAGE_QUEUE, message)
  /\ qlog' = [qlog EXCEPT !.enqueued = Append(@, message)]
  /\ QueueCall("enqueue", None)

Dequeue ==
  /\ MESSAGE_QUEUE' = dequeue(MESSAGE_QUEUE).queue
  /\ qlog' = [qlog EXCEPT !.gone = Min(@ + 1, Len(qlog.enqueued))]
  /\ QueueCall("dequeue", dequeue(MESSAGE_QUEUE).ret)

Peek ==
  /\ UNCHANGED queue_vars
  /\ QueueCall("peek", peek(MESSAGE_QUEUE))

Size ==
  /\ UNCHANGED queue_vars
  /\ QueueCall("size", size(MESSAGE_QUEUE))

Clear ==
  /\ MESSAGE_QUEUE' = clear(MESSAGE_QUEUE)
  /\ qlog' = [qlog EXCEPT !.gone = Len(qlog.enqueued)]
  /\ QueueCall("clear", None)

NextDeq ==
  \/ \E m \in Messages : Enqueue(m)
  \/ Dequeue
  \/ Peek
  \/ Size
  \/ Clear

SpecDeq == Init /\ [][NextDeq]_vars

\* ------------------------------------------------------------------------
\* Deposits to every funding, the single-participant channel included
\* ------------------------------------------------------------------------
NextLedger ==
  \/ \E f \in FundingSet \cup {SingleFunding}, a \in 0 .. MaxAmount : Deposit(f, a)
  \/ \E d \in L1Accounts, a \in 1 .. MaxAmount : DepositLiqPool(d, a)
  \/ \E p \in ParamsSet, s \in RegisteredStates : RegisterChannel(p, s)

SpecLedger == Init /\ [][NextLedger]_vars

\* ------------------------------------------------------------------------
\* Settlement of a registered state
\* ------------------------------------------------------------------------
\* the times settlement is asked at: before, at and after the timeout
Nows == {0, 1, 2}

\* (variant: the state settles only after the timeout has passed)
settled_after_timeout(rs, now) == rs.state.finalized \/ now > rs.timeout

\* RegisteredState::settled
settled(rs, now) == rs.state.finalized \/ now >= rs.timeout

\* CanisterState::state: the registered state of a channel, if any
state(chs, c) == IF c \in DOMAIN chs THEN Some(chs[c]) ELSE None

\* query_state followed by settled(now) on the state it returned
QuerySettled(c, now) ==
  /\ UNCHANGED <<transferred_out, queue_vars>>
  /\ StateWrite
  /\ nops < MaxOps
  /\ nops' = nops + 1
  /\ state(channels, c) # None
  /\ result' = [Result("settled",
                         IF settled(state(channels, c).value, now)
                         THEN "true" ELSE "false")
                  EXCEPT !.call = [channel |-> c, now |-> now]]
  /\ UNCHANGED <<ledger, pending, deposited, withdrawn, icrc_receiver>>

NextSettled ==
  \/ \E f \in FundingSet, a \in 0 .. MaxAmount : Deposit(f, a)
  \/ \E p \in ParamsSet, s \in RegisteredStates : RegisterChannel(p, s)
  \/ \E c \in ChannelIds, now \in Nows : QuerySettled(c, now)

SpecSettled == Init /\ [][NextSettled]_vars

\* ------------------------------------------------------------------------
\* DepositReconciler
\* ------------------------------------------------------------------------
\* Funding::memo(): the first 8 bytes of the digest of channel id and
\* participant key.  The digest is modelled as collision-free on the model's
\* fundings: the memo is the digested pair.
memo(funding) == <<funding.channel, funding.participant>>

\* the transactions on the external ledger: block height -> memo and amount
BlockHeights == {1, 2, 3}
F1 == Funding(id([nonce |-> 1, participants |-> <<"P1", "P2">>, challenge_duration |-> 1]), "P1")
F2 == Funding(id([nonce |-> 1, participants |-> <<"P1", "P2">>, challenge_duration |-> 1]), "P2")
LedgerTxs ==
  (1 :> [memo |-> memo(F1), amount |-> 1]) @@ (2 :> [memo |-> memo(F2), amount |-> 2])

NotifyAmounts == {1, 2}

\* Receiver::verify_icrc: the transaction must be new to the receiver, exist
\* on the ledger and carry the claimed amount and the memo of the funding;
\* it is then marked as seen and its amount is added to the memo's unspent
\* balance
verify_icrc(rcv, tx, amount, funding) ==
  IF \/ tx \in rcv.known_txs
     \/ tx \notin DOMAIN LedgerTxs
  THEN [ok |-> FALSE, value |-> 0, receiver |-> rcv]
  ELSE IF \/ LedgerTxs[tx].amount # amount
          \/ LedgerTxs[tx].memo # memo(funding)
       THEN [ok |-> FALSE, value |-> 0, receiver |-> rcv]
       ELSE [ok |-> TRUE, value |-> amount,
             receiver |->
               [unspent |-> Insert(rcv.unspent, memo(funding),
                                   Balance(rcv.unspent, memo(funding)) + amount),
                known_txs |-> rcv.known_txs \cup {tx}]]

\* Receiver::drain: takes the memo's unspent balance out of the receiver
drain(rcv, m) ==
  [amount |-> Balance(rcv.unspent, m),
   receiver |-> [rcv EXCEPT !.unspent = Remove(rcv.unspent, m)]]

\* CanisterState::process_icrc_tx
process_icrc_tx(rcv, tx, amount, funding) ==
  LET v == verify_icrc(rcv, tx, amount, funding)
  IN [ret |-> IF v.ok THEN Some(v.value) ELSE None, icrc_receiver |-> v.receiver]

\* (variant: the unspent balance is read but left in the receiver)
deposit_icrc_keeps_unspent(h, rcv, funding) ==
  [amount |-> drain(rcv, memo(funding)).amount,
   icrc_receiver |-> rcv,
   user_holdings |-> deposit(h, funding, drain(rcv, memo(funding)).amount)]

\* CanisterState::deposit_icrc
deposit_icrc(h, rcv, funding) ==
  [amount |-> drain(rcv, memo(funding)).amount,
   icrc_receiver |-> drain(rcv, memo(funding)).receiver,
   user_holdings |-> deposit(h, funding, drain(rcv, memo(funding)).amount)]

\* transaction_notification: the write guard is held across the await of the
\* verification, so the handler runs without another call in between
TransactionNotification(tx, amount, funding) ==
  /\ UNCHANGED <<transferred_out, queue_vars>>
  /\ StateWrite
  /\ nops < MaxOps
  /\ nops' = nops + 1
  /\ LET r == process_icrc_tx(icrc_receiver, tx, amount, funding)
     IN /\ icrc_receiver' = r.icrc_receiver
        /\ result' = [Result("transaction_notification", r.ret.tag)
                        EXCEPT !.call = [tx |-> tx, amount |-> amount,
                                         funding |-> funding]]
  /\ UNCHANGED <<ledger, pending, deposited, withdrawn>>

\* the deposit entry point
DepositIcrc(funding) ==
  /\ UNCHANGED <<transferred_out, queue_vars>>
  /\ StateWrite
  /\ nops < MaxOps
  /\ nops' = nops + 1
  /\ LET r == deposit_icrc(user_holdings, icrc_receiver, funding)
     IN /\ user_holdings' = r.user_holdings
        /\ icrc_receiver' = r.icrc_receiver
        /\ deposited' = [deposited EXCEPT ![funding.channel] = @ + r.amount]
        /\ result' = [Result("deposit_icrc", "Ok")
                        EXCEPT !.call = [funding |-> funding]]
  /\ UNCHANGED <<channels, liq_pool_holdings, pending, withdrawn>>

NextReceiver ==
  \/ \E tx \in BlockHeights, a \in NotifyAmounts, f \in FundingSet :
       TransactionNotification(tx, a, f)
  \/ \E f \in FundingSet : DepositIcrc(f)

SpecReceiver == Init /\ [][NextReceiver]_vars

\* ------------------------------------------------------------------------
\* Properties
\* ------------------------------------------------------------------------
TotalOf(h) == MapSum(h, DOMAIN h)

\* the accounts a plan deducts from
PlanAccounts(to_deduct) == { to_deduct[i][1] : i \in 1 .. Len(to_deduct) }

\* C1: a pool withdrawal whose transfer comes back with any error variant or
\* with a failed call returns LedgerError to its caller and leaves the
\* holdings map equal to its value when the withdrawal started.
C1_FailedTransferLeavesHoldings ==
  [][\A r \in Responses \ {"Ok"} :
        TransferReturns(r) =>
          /\ user_holdings' = pending.snapshot
          /\ user_holdings' = user_holdings
          /\ result'.op = "trigger_withdraw"
          /\ result'.outcome = "LedgerError"]_vars

\* a withdrawal over non-empty holdings has failed at its transfer
C1_Witness ==
  /\ result.op = "trigger_withdraw"
  /\ result.outcome = "LedgerError"
  /\ result.requested > 0
  /\ TotalOf(user_holdings) >= result.requested

\* C2: while a withdrawal is suspended between its plan and its commit, every
\* account its plan deducts from has the balance the plan was computed on.
C2_PlanSnapshotCurrent ==
  pending # NoPending =>
    \A acc \in PlanAccounts(pending.to_deduct) :
      query_holdings(user_holdings, acc) = query_holdings(pending.snapshot, acc)

\* another call arrived while a planned withdrawal was suspended
C2_Witness ==
  /\ pending # NoPending
  /\ pending.to_deduct # <<>>
  /\ result.op = "blocked"

\* the per-channel quantity conservation speaks of
Surplus(h, w, d, c) == ChannelSum(h, c) + w[c] - d[c]

\* C3 (as claimed): for every channel, the sum of its holdings entries plus
\* the sum withdrawn from it equals the sum of the deposits credited to it.
C3_Conservation ==
  \A c \in ChannelIds : ChannelSum(user_holdings, c) + withdrawn[c] = deposited[c]

\* C3 (amended): every operation other than register_channel (deposits and
\* pool withdrawals, failed ones included) leaves, for every channel, the sum
\* of its holdings entries plus what was withdrawn minus what was deposited
\* unchanged.
C3_ConservedOutsideRegistration ==
  [][result'.op # "register_channel" =>
       \A c \in ChannelIds :
         Surplus(user_holdings', withdrawn', deposited', c)
           = Surplus(user_holdings, withdrawn, deposited, c)]_vars

\* a channel that was deposited to has been withdrawn from
C3_Witness ==
  /\ result.op = "trigger_withdraw"
  /\ result.outcome = "Ok"
  /\ \E c \in ChannelIds : deposited[c] > 0 /\ withdrawn[c] > 0

\* the arguments of the registration that a state is the result of
CallParams == result.call.params
CallState == result.call.state

\* holdings_total as the registration rule states it: the balances of
\* Funding(params.id(), p) over the participant list, absent entries as 0
FundingTotal(h, params) ==
  SeqSum([i \in 1 .. Len(params.participants) |->
            Balance(h, [channel |-> id(params), participant |-> params.participants[i]])])

\* C4: a registration for a channel that has a stored state, with a version
\* lower than or equal to the stored one, fails with OutdatedState and
\* changes neither the registry nor the holdings.
C4_MonotonicRegistration ==
  [][result'.op = "register_channel" =>
       LET s == result'.call.state
           ch == s.state.channel
       IN (ch \in DOMAIN channels /\ s.state.version <= channels[ch].state.version)
            => /\ result'.outcome = "OutdatedState"
               /\ channels' = channels
               /\ user_holdings' = user_holdings]_vars

\* C5: a registration of a non-zero version whose allocation total exceeds
\* the channel's funding total fails with InsufficientFunding and changes
\* neither the holdings nor the registry.
C5_UnderfundedNonZeroVersionFails ==
  [][result'.op = "register_channel" =>
       LET p == result'.call.params
           s == result'.call.state
       IN (s.state.version # 0
           /\ SeqSum(s.state.allocation) > FundingTotal(user_holdings, p))
            => /\ result'.outcome = "InsufficientFunding"
               /\ user_holdings' = user_holdings
               /\ channels' = channels]_vars

\* a version-1 registration over partial deposits was refused
C5_Witness ==
  /\ result.op = "register_channel"
  /\ result.outcome = "InsufficientFunding"
  /\ CallState.state.version # 0
  /\ FundingTotal(user_holdings, CallParams) > 0
  /\ CallState.state.channel \notin DOMAIN channels

\* C6: a registration of a version-0, non-finalized state whose allocation
\* total exceeds the channel's funding total succeeds, stores the state under
\* the state's channel and leaves the holdings map as it was.
C6_UnderfundedInitialStateStored ==
  [][result'.op = "register_channel" =>
       LET p == result'.call.params
           s == result'.call.state
       IN (s.state.version = 0 /\ ~s.state.finalized
           /\ SeqSum(s.state.allocation) > FundingTotal(user_holdings, p))
            => /\ result'.outcome = "Ok"
               /\ s.state.channel \in DOMAIN channels'
               /\ channels'[s.state.channel] = s
               /\ user_holdings' = user_holdings]_vars

\* an initial state was registered over deposits smaller than its allocation
C6_Witness ==
  /\ result.op = "register_channel"
  /\ result.outcome = "Ok"
  /\ CallState.state.version = 0
  /\ ~CallState.state.finalized
  /\ FundingTotal(user_holdings, CallParams) > 0
  /\ SeqSum(CallState.state.allocation) > FundingTotal(user_holdings, CallParams)
  /\ channels[CallState.state.channel] = CallState

\* C7: after a successful registration whose funding total covers the
\* allocation total, every participant index that has an allocation entry
\* reads that entry back: query_holdings(Funding(state.channel,
\* participants[i])) = Some(allocation[i]).
C7_AllocationReadBack ==
  [][result'.op = "register_channel" /\ result'.outcome = "Ok" =>
       LET p == result'.call.params
           s == result'.call.state.state
       IN FundingTotal(user_holdings, p) >= SeqSum(s.allocation)
            => \A i \in (1 .. Len(p.participants)) \cap (1 .. Len(s.allocation)) :
                 query_holdings(user_holdings', [channel |-> s.channel,
                                                 participant |-> p.participants[i]])
                   = Some(s.allocation[i])]_vars

\* C8: a successful pool withdrawal deducts exactly the requested amount from
\* the holdings and passes exactly the requested amount to the transfer.
C8_DeductedEqualsTransferred ==
  (result.op = "trigger_withdraw" /\ result.outcome = "Ok") =>
    /\ result.deducted = result.requested
    /\ result.transferred = result.requested

\* C9: no step of a pool withdrawal changes the per-channel holdings map.
C9_ChannelHoldingsUntouched ==
  [][result'.op = "trigger_withdraw" => user_holdings' = user_holdings]_vars

\* C10: a pool withdrawal that asks for more than the iterated map holds in
\* total fails with InsufficientLiquidity in its plan phase: it is not
\* suspended at a transfer and no ledger map changes.
C10_InsufficientLiquidity ==
  [][(result'.op = "trigger_withdraw" /\ pending = NoPending
      /\ TotalOf(user_holdings) < result'.requested)
       => /\ result'.outcome = "InsufficientLiquidity"
          /\ pending' = NoPending
          /\ user_holdings' = user_holdings
          /\ channels' = channels
          /\ liq_pool_holdings' = liq_pool_holdings]_vars

\* a withdrawal asked for more than the non-empty holdings hold
C10_Witness ==
  /\ result.op = "trigger_withdraw"
  /\ result.outcome = "InsufficientLiquidity"
  /\ pending = NoPending
  /\ TotalOf(user_holdings) > 0
  /\ TotalOf(user_holdings) < result.requested

\* the holdings a pool withdrawal of `amount` can leave when it runs alone,
\* from plan to commit, on the holdings h and its transfer succeeds
SequentialWithdrawals(h, amount) ==
  { apply_deductions(h, calculate_required_deductions(h, o, amount).to_deduct).map :
      o \in { x \in Orders(DOMAIN h) :
                calculate_required_deductions(h, x, amount).tag = "Ok" } }

C12_UnrelatedCallsRun ==
  (pending # NoPending /\ nops < MaxOps) =>
    \A f \in FundingSet \ PlanAccounts(pending.to_deduct) : ENABLED Deposit(f, 1)

\* C13: a withdrawal changes the holdings exactly when its transfer came back
\* Ok: the plan phase changes nothing, an Ok answer commits and returns Ok,
\* and every other answer returns LedgerError and commits nothing.
C13_CommitOnlyOnSuccess ==
  [][/\ (result'.op = "trigger_withdraw" /\ pending = NoPending) =>
          user_holdings' = user_holdings
     /\ \A r \in Responses :
          TransferReturns(r) =>
            /\ (user_holdings' # user_holdings) <=> (r = "Ok")
            /\ result'.outcome = (IF r = "Ok" THEN "Ok" ELSE "LedgerError")
            /\ pending' = NoPending]_vars

\* a transfer came back Ok and its plan was committed in full
C13_Witness ==
  /\ result.op = "trigger_withdraw"
  /\ result.outcome = "Ok"
  /\ result.deducted = result.requested
  /\ result.deducted > 0
  /\ withdrawn # [c \in DepositChannels |-> 0]

\* C17: a registration whose state names a channel other than params.id() is
\* rejected and changes neither the registry nor the holdings.
C17_ChannelIdMatchesParams ==
  [][(result'.op = "register_channel"
      /\ result'.call.state.state.channel # id(result'.call.params))
       => /\ result'.outcome # "Ok"
          /\ channels' = channels
          /\ user_holdings' = user_holdings]_vars

\* the ascending order of funding keys: by channel nonce, then by participant
KeyLess(a, b) ==
  \/ a.channel[1] < b.channel[1]
  \/ a.channel[1] = b.channel[1] /\ a.participant = "P1" /\ b.participant = "P2"

AscendingOrder(keys) ==
  CHOOSE o \in Orders(keys) :
    \A i, j \in 1 .. Cardinality(keys) : i < j => KeyLess(o[i], o[j])

\* C18: the plan of a suspended withdrawal is the one obtained by visiting
\* the accounts in ascending key order and taking min(available, remaining)
\* from each, so the holdings and the amount determine the plan.
C18_PlanInAscendingKeyOrder ==
  pending # NoPending =>
    pending.to_deduct =
      deductions_from(user_holdings, AscendingOrder(DOMAIN user_holdings),
                      pending.req.amount, <<>>).to_deduct

\* C19: for every channel, the sum of its holdings entries never exceeds what
\* was deposited to it minus what was withdrawn from it.
C19_NoValueCreated ==
  \A c \in ChannelIds : ChannelSum(user_holdings, c) <= deposited[c] - withdrawn[c]

\* C20: every amount in the holdings map and in the pool map is at least 0,
\* and every deduction of a suspended withdrawal's plan is at most the
\* current balance of its account, so the commit does not underflow.
C20_NoUnderflow ==
  /\ \A k \in DOMAIN user_holdings : user_holdings[k] >= 0
  /\ \A a \in DOMAIN liq_pool_holdings : liq_pool_holdings[a] >= 0
  /\ pending # NoPending =>
       \A i \in 1 .. Len(pending.to_deduct) :
         /\ pending.to_deduct[i][1] \in DOMAIN user_holdings
         /\ pending.to_deduct[i][2] <= user_holdings[pending.to_deduct[i][1]]

\* a withdrawal whose plan takes from two accounts is suspended
C20_Witness ==
  /\ pending # NoPending
  /\ Len(pending.to_deduct) = 2

C15_SettledIffFinalizedOrTimedOut ==
  result.op = "settled" =>
    LET rs == channels[result.call.channel]
        now == result.call.now
    IN /\ result.outcome = "true" <=> ~(~rs.state.finalized /\ now < rs.timeout)
       /\ rs.state.finalized => result.outcome = "true"
       /\ now = rs.timeout => result.outcome = "true"

\* a state that is not finalized was asked at its timeout and is settled
C15_Witness ==
  /\ result.op = "settled"
  /\ ~channels[result.call.channel].state.finalized
  /\ result.call.now = channels[result.call.channel].timeout
  /\ result.outcome = "true"

\* the sum of the amounts of the ledger transactions in txs that carry memo m
RECURSIVE TxSum(_, _)
TxSum(txs, m) ==
  IF txs = {} THEN 0
  ELSE LET t == CHOOSE x \in txs : TRUE
       IN (IF LedgerTxs[t].memo = m THEN LedgerTxs[t].amount ELSE 0)
            + TxSum(txs \ {t}, m)

\* C16: over any sequence of transaction_notification and deposit calls every
\* ledger transaction is credited at most once: what a funding holds plus
\* what waits for it in the receiver is the sum of the accepted transactions
\* with its memo, each of which is on the ledger and counted once; a
\* notification that fails verification changes nothing; and a deposit that
\* follows a deposit to the same funding adds nothing.
C16_NoDoubleCredit ==
  [][/\ \A f \in FundingSet :
          Balance(user_holdings', f) + Balance(icrc_receiver'.unspent, memo(f))
            = TxSum(icrc_receiver'.known_txs \cap DOMAIN LedgerTxs, memo(f))
     /\ icrc_receiver'.known_txs \subseteq DOMAIN LedgerTxs
     /\ (result'.op = "transaction_notification" /\ result'.outcome = "None") =>
          /\ user_holdings' = user_holdings
          /\ icrc_receiver' = icrc_receiver
     /\ result'.op = "transaction_notification" => user_holdings' = user_holdings
     /\ (result.op = "deposit_icrc" /\ result'.op = "deposit_icrc"
         /\ result'.call.funding = result.call.funding) =>
          Balance(user_holdings', result'.call.funding)
            = Balance(user_holdings, result'.call.funding)]_vars

\* a verified transaction was credited and its funding was drained again
C16_Witness ==
  /\ result.op = "deposit_icrc"
  /\ result.call.funding = F1
  /\ Balance(user_holdings, F1) = 1
  /\ icrc_receiver.known_txs = {1}
  /\ icrc_receiver.unspent = EmptyMap
  /\ nops = 3

\* C21: a deposit of a to a funding returns Ok, raises that funding's
\* balance by exactly a (from 0 when it had no entry, and the entry exists
\* afterwards), and leaves every other holdings entry, the pool map and the
\* registry as they were; on the empty ledger a deposit to the funding of a
\* single-participant channel makes holdings_total of its params equal to a.
C21_DepositFrame ==
  [][\A f \in FundingSet \cup {SingleFunding}, a \in 0 .. MaxAmount :
        Deposit(f, a) =>
          /\ result'.outcome = "Ok"
          /\ query_holdings(user_holdings', f)
               = Some((IF f \in DOMAIN user_holdings THEN user_holdings[f] ELSE 0) + a)
          /\ DOMAIN user_holdings' = DOMAIN user_holdings \cup {f}
          /\ \A k \in DOMAIN user_holdings \ {f} : user_holdings'[k] = user_holdings[k]
          /\ liq_pool_holdings' = liq_pool_holdings
          /\ channels' = channels
          /\ (user_holdings = EmptyMap /\ f = SingleFunding) =>
               holdings_total(user_holdings', SingleParams) = a]_vars

\* the single-participant funding was deposited to on the empty ledger, and a
\* deposit was added to an entry that existed, with a channel registered
C21_Witness ==
  /\ result.op = "deposit"
  /\ SingleFunding \in DOMAIN user_holdings
  /\ user_holdings[SingleFunding] = 2 * MaxAmount
  /\ channels # EmptyMap

\* C24: a pool withdrawal that returns Ok has lowered the balance of every
\* account of its plan by exactly the planned amount, has removed exactly
\* the planned accounts whose balance reached 0, and has left every account
\* outside the plan as it was.
C24_CommitAppliesPlan ==
  [][(pending # NoPending /\ result'.op = "trigger_withdraw" /\ result'.outcome = "Ok") =>
       /\ \A i \in 1 .. Len(pending.to_deduct) :
            LET acc == pending.to_deduct[i][1]
                take == pending.to_deduct[i][2]
            IN /\ acc \in DOMAIN user_holdings
               /\ Balance(user_holdings', acc) = user_holdings[acc] - take
               /\ (user_holdings[acc] - take = 0) <=> (acc \notin DOMAIN user_holdings')
       /\ \A k \in DOMAIN user_holdings \ PlanAccounts(pending.to_deduct) :
            k \in DOMAIN user_holdings' /\ user_holdings'[k] = user_holdings[k]
       /\ DOMAIN user_holdings' \subseteq DOMAIN user_holdings]_vars

\* a committed withdrawal has left exactly one account in the map
C24_Witness ==
  /\ result.op = "trigger_withdraw"
  /\ result.outcome = "Ok"
  /\ Cardinality(DOMAIN user_holdings) = 1
  /\ TotalOf(user_holdings) + result.deducted = 2 * MaxAmount - 1

\* C25: once the registered state of a channel is finalized, no later
\* register_channel call changes that registered state or the holdings
\* entries of the channel.
C25_SettledStateAuthoritative ==
  [][result'.op = "register_channel" =>
       \A c \in DOMAIN channels :
         channels[c].state.finalized =>
           /\ channels'[c] = channels[c]
           /\ \A f \in FundingSet :
                f.channel = c =>
                  query_holdings(user_holdings', f) = query_holdings(user_holdings, f)]_vars

\* C26: a registration of a finalized state of version 0 whose allocation
\* total exceeds the channel's funding total fails with InsufficientFunding
\* and changes neither the holdings nor the registry.
C26_FinalizedInitialStateNeedsFunding ==
  [][(result'.op = "register_channel"
      /\ result'.call.state.state.version = 0
      /\ result'.call.state.state.finalized
      /\ FundingTotal(user_holdings, result'.call.params)
           < SeqSum(result'.call.state.state.allocation))
       => /\ result'.outcome = "InsufficientFunding"
          /\ user_holdings' = user_holdings
          /\ channels' = channels]_vars

\* a finalized version-0 state was refused on a channel that holds something
C26_Witness ==
  /\ result.op = "register_channel"
  /\ result.outcome = "InsufficientFunding"
  /\ result.call.state.state.version = 0
  /\ result.call.state.state.finalized
  /\ FundingTotal(user_holdings, result.call.params) > 0

\* C27: after a registration that returns Ok on a channel funded to at least
\* the allocation total, holdings_total of the params equals the allocation
\* total of the state.
C27_HoldingsTotalIsAllocationTotal ==
  [][(result'.op = "register_channel" /\ result'.outcome = "Ok"
      /\ FundingTotal(user_holdings, result'.call.params)
           >= SeqSum(result'.call.state.state.allocation))
       => holdings_total(user_holdings', result'.call.params)
            = total(result'.call.state.state)]_vars

\* C28: every pool withdrawal returns a result value, Ok or an error,
\* whatever amount it asks for, and one that asks for 0 leaves the three
\* maps unchanged.
C28_WithdrawalAlwaysReturns ==
  [][result'.op = "trigger_withdraw" =>
       /\ result'.outcome # "trap"
       /\ result'.requested = 0 =>
            /\ user_holdings' = user_holdings
            /\ channels' = channels
            /\ liq_pool_holdings' = liq_pool_holdings]_vars

\* C30: no entry of the holdings map has amount 0, so query_holdings answers
\* None exactly for the fundings whose balance is 0.
C30_NoZeroEntries ==
  \A f \in FundingSet :
    (query_holdings(user_holdings, f) = None) <=> (Balance(user_holdings, f) = 0)

\* the messages that were enqueued and have neither been dequeued nor cleared
Waiting == SubSeq(qlog.enqueued, qlog.gone + 1, Len(qlog.enqueued))

\* C22: a dequeue returns the oldest message that was enqueued and has not
\* left the queue, None when there is none, so messages come out in the
\* order they went in; size returns the number of messages enqueued and
\* neither dequeued nor cleared.
C22_Fifo ==
  [][/\ result'.op = "dequeue" =>
          result'.call.ret = (IF Waiting = <<>> THEN None ELSE Some(Waiting[1]))
     /\ result'.op = "size" =>
          result'.call.ret = Len(qlog.enqueued) - qlog.gone
     /\ (result.op = "dequeue" /\ result'.op = "dequeue"
         /\ result'.call.ret # None) =>
          \E i \in 1 .. Len(qlog.enqueued) - 1 :
            /\ result.call.ret = Some(qlog.enqueued[i])
            /\ result'.call.ret = Some(qlog.enqueued[i + 1])]_vars

\* two different messages were enqueued and dequeued one after the other
C22_Witness ==
  /\ result.op = "dequeue"
  /\ Len(qlog.enqueued) = 2
  /\ qlog.enqueued[1] # qlog.enqueued[2]
  /\ result.call.ret = Some(qlog.enqueued[2])
  /\ qlog.gone = 2
  /\ MESSAGE_QUEUE = <<>>

\* C23: peek returns what the next dequeue returns and leaves the queue and
\* its size as they were; the call that follows a clear finds the queue
\* empty: size returns 0, peek and dequeue return None.
C23_PeekAndClear ==
  [][/\ result'.op = "peek" =>
          /\ MESSAGE_QUEUE' = MESSAGE_QUEUE
          /\ result'.call.ret = (IF Waiting = <<>> THEN None ELSE Some(Waiting[1]))
     /\ (result.op = "peek" /\ result'.op = "dequeue") =>
          result'.call.ret = result.call.ret
     /\ (result.op = "peek" /\ result'.op = "size") =>
          result'.call.ret = Len(MESSAGE_QUEUE)
     /\ result'.op = "clear" => MESSAGE_QUEUE' = <<>>
     /\ (result.op = "clear" /\ result'.op = "size") => result'.call.ret = 0
     /\ (result.op = "clear" /\ result'.op \in {"peek", "dequeue"}) =>
          result'.call.ret = None]_vars

\* a queue of two different messages was peeked at
C23_Witness ==
  /\ result.op = "peek"
  /\ Len(MESSAGE_QUEUE) = 2
  /\ MESSAGE_QUEUE[1] # MESSAGE_QUEUE[2]
  /\ result.call.ret = Some(MESSAGE_QUEUE[1])

\* the amount deducted from the holdings so far, over all channels
RECURSIVE SumOver(_, _)
SumOver(f, keys) ==
  IF keys = {} THEN 0
  ELSE LET k == CHOOSE x \in keys : TRUE IN f[k] + SumOver(f, keys \ {k})

\* C29: in every state the total amount of the transfers the ledger accepted
\* is at most the total amount deducted from the holdings.
C29_TransfersCoveredByDeductions ==
  transferred_out <= SumOver(withdrawn, DOMAIN withdrawn)

\* C31: every pool withdrawal suspended at its transfer eventually returns
\* Ok or LedgerError to its caller with the write guard released, so that
\* the ledger does not stay locked.
C31_WithdrawalCompletes ==
  (pending # NoPending) ~>
    (/\ StateWrite
     /\ result.op = "trigger_withdraw"
     /\ result.outcome \in {"Ok", "LedgerError"})

\* a deposit was accepted after a withdrawal had been suspended and committed
C31_Witness ==
  /\ result.op = "deposit"
  /\ StateWrite
  /\ SumOver(withdrawn, DOMAIN withdrawn) > 0
  /\ nops = 3

====
